---- MODULE Spec2Model ----
(***************************************************************************)
(* Model of DM4_processing.py: the DM4 container parser (getDM4Endianness,  *)
(* getDM4Scale, getDM4Image) and the batch converter                        *)
(* (convertDM4DirectoryToTiff).                                             *)
(*                                                                          *)
(* A container stream is represented by what the parser can observe of it:  *)
(* its length and the offsets at which each searched byte signature occurs  *)
(* (bytes.find on a window returns the least occurrence that lies wholly    *)
(* inside the window), plus the header fields read at fixed offsets.        *)
(* Window sizes, signature lengths and header offsets keep the values of    *)
(* the source.                                                              *)
(***************************************************************************)
EXTENDS Integers, Sequences, FiniteSets, TLC

(***************************************************************************)
(* Program constants                                                        *)
(***************************************************************************)
\* f.read(1024): the scan window of getDM4Scale and getDM4Image
Window == 1024
\* len(b"ImageData")
ImageDataLen == 9
\* len(b"Scale"), len(b"Units")
ScaleLen == 5
UnitsLen == 5
\* f.seek(f.tell() - 8): the rewind of getDM4Scale after a window without match
RewindMut == Window
Rewind == 8
\* chunk[pos+37:] and chunk[pos+33:pos+37]: end of the record of a Scale match
ScaleSkip == 37
\* "+ pos + 41": offset of the label length field past a Units match
UnitsOff == 41
\* len(b"\x15\x00\x04Data")
SentinelLen == 7
\* len(b"Dimensions")
DimensionsLen == 10
\* f.read(19); tag_header[7:15]
TagHeaderLen == 19
TlenEnd == 15
\* f.read(8) of ninfo, tdtype, dtype, narray
FieldLen == 8
\* f.read(256) and f.read(98) of the dimension lookup; chunk[59:63], chunk[94:98]
DimWindow == 256
DimChunk == 98
Dim1End == 63

\* f.read(16): the header prefix getDM4Endianness reads
HeaderLen == 16
\* np.histogram(norm_img, bins=256, density=True)
NBins == 256
\* img > 255: the largest 8-bit sample
MaxByte == 255

(***************************************************************************)
(* Bounds of the explored inputs                                            *)
(***************************************************************************)
\* streams span up to MaxWindows full windows (plus a partial one)
MaxWindows == 2
\* at most MaxOcc occurrences of a scanned signature in a stream
MaxOcc == 3
\* header streams of getDM4Endianness have at most MaxLen bytes
MaxLen == 17
\* the directory walk of a batch yields at most MaxFiles entries
MaxFiles == 3
\* pixel count of a densely populated sample value
BigCount == 10000

VARIABLES
  call,              \* function being executed
  pc,                \* position inside it
  verbose,           \* the verbose argument
  size,              \* length of the stream (f.seek(0, os.SEEK_END); f.tell())
  imageDataAt,       \* offsets at which b"ImageData" occurs in the stream
  scaleAt,           \* offsets at which b"Scale" occurs
  unitsAt,           \* offsets at which b"Units" occurs
  lblLen,            \* value of the 8-byte label length field
  fpos,              \* file cursor (f.tell())
  spos,              \* local spos
  first_data_found,  \* local first_data_found of getDM4Scale
  image_data_pos,    \* local image_data_pos of getDM4Scale
  scale_src,         \* window-relative index of the Scale match the float follows
  scale_hits,        \* how many of the three Scale lookups matched
  sentinelAt,        \* offsets at which the sentinel b"\x15\x00\x04Data" occurs
  blocks,            \* header fields that follow each sentinel
  first,             \* local first of getDM4Image
  thumbnail,         \* local thumbnail of getDM4Image (NoImage while unbound)
  raw,               \* local raw of getDM4Image (NoImage while unbound)
  matches,           \* offsets spos + pos of the sentinel matches, in scan order
  windows,           \* number of scan windows read so far
  err,               \* exception that ended the call, "" if none
  stream,            \* getDM4Endianness: the bytes of the stream
  ret,               \* getDM4Endianness: the returned byte order
  printed,           \* console output of getDM4Endianness and of the batch
  files,             \* batch: the entries os.walk yields, in order
  cur,               \* batch: index of the next entry of the walk
  num,               \* batch: local num
  i,                 \* batch: local i
  written,           \* batch: indices of the entries whose TIF was written
  samples,           \* stretch: number of pixels of image['img'] per sample value
  contrast,          \* stretch: the contrast argument
  minedge,           \* stretch: local minedge as a bin edge index, None if unset
  maxedge,           \* stretch: local maxedge as a bin edge index, None if unset
  img                \* stretch: the 8-bit output sample per input sample value

ctlVars == <<call, pc, verbose, err>>
scaleVars == <<imageDataAt, scaleAt, unitsAt, lblLen, first_data_found,
               image_data_pos, scale_src, scale_hits>>
imageVars == <<sentinelAt, blocks, first, thumbnail, raw, matches, windows>>
fileVars == <<size, fpos, spos>>

endianVars == <<stream, ret>>
batchVars == <<files, cur, num, i, written>>
stretchVars == <<samples, contrast, minedge, maxedge, img>>
parseVars == <<fileVars, scaleVars, imageVars>>

vars == <<ctlVars, fileVars, scaleVars, imageVars, endianVars, printed,
          batchVars, stretchVars>>

(***************************************************************************)
(* Helpers: file reads and bytes.find                                       *)
(***************************************************************************)
Min2(a, b) == IF a < b THEN a ELSE b

SetMin(S) == CHOOSE x \in S : \A y \in S : x <= y

\* end offset of f.read(n) issued at cursor p on a stream of length sz
ReadEnd(p, n, sz) == IF p >= sz THEN p ELSE Min2(p + n, sz)

\* bytes.find of a signature of length len in stream[lo:hi], as an index
\* relative to lo, -1 if the window holds no whole occurrence
Find(occ, len, lo, hi) ==
  LET inside == {q \in occ : q >= lo /\ q + len <= hi}
  IN  IF inside = {} THEN -1 ELSE SetMin(inside) - lo

\* Python's None
None == -1

(***************************************************************************)
(* getDM4Scale                                                              *)
(***************************************************************************)
\* lines 91-102: one iteration of the scan for the second "ImageData"
ScaleScanStep ==
  /\ call = "getDM4Scale" /\ pc = "scan"
  /\ spos < size
  /\ LET hi  == ReadEnd(fpos, Window, size)
         pos == Find(imageDataAt, ImageDataLen, fpos, hi)
     IN  /\ spos' = hi
         /\ IF pos > -1
            THEN IF first_data_found
                 THEN /\ image_data_pos' = hi - Window + pos
                      /\ pc' = "decode"
                      /\ fpos' = hi
                      /\ UNCHANGED <<first_data_found, err>>
                 ELSE /\ first_data_found' = TRUE
                      /\ fpos' = hi
                      /\ UNCHANGED <<image_data_pos, pc, err>>
            ELSE IF hi - Rewind < 0
                 THEN /\ pc' = "error" /\ err' = "OSError"
                      /\ fpos' = hi
                      /\ UNCHANGED <<first_data_found, image_data_pos>>
                 ELSE /\ fpos' = hi - Rewind
                      /\ UNCHANGED <<first_data_found, image_data_pos, pc, err>>
  /\ UNCHANGED <<call, verbose, size, imageDataAt, scaleAt, unitsAt, lblLen,
                 scale_src, scale_hits>>
  /\ UNCHANGED <<imageVars, endianVars, printed, batchVars, stretchVars>>

\* line 91: the loop condition fails, the scan ends without a second match
ScaleScanExit ==
  /\ call = "getDM4Scale" /\ pc = "scan"
  /\ ~(spos < size)
  /\ pc' = "decode"
  /\ UNCHANGED <<call, verbose, err, fileVars, scaleVars, imageVars>>
  /\ UNCHANGED <<endianVars, printed, batchVars, stretchVars>>

\* line 112: pos = chunk[pos+37:].find(b"Scale") + pos + 37, on the window
\* that starts at offset c and ends at hi
NextScale(pos, c, hi) ==
  Find(scaleAt, ScaleLen, Min2(c + pos + ScaleSkip, hi), hi) + pos + ScaleSkip

\* whether that lookup matched
NextScaleHit(pos, c, hi) ==
  Find(scaleAt, ScaleLen, Min2(c + pos + ScaleSkip, hi), hi) > -1

\* lines 104-126: read the window at image_data_pos, decode scale and label
\* c, hi: start and end of the window; pos0: line 107; pos1, pos2: the two
\* rounds of line 112; upos: line 119
ScaleDecode ==
  /\ call = "getDM4Scale" /\ pc = "decode"
  /\ IF image_data_pos < 0
     THEN /\ pc' = "error" /\ err' = "OSError"
          /\ UNCHANGED <<fpos, scale_src, scale_hits>>
     ELSE \E c \in {image_data_pos} :
          \E hi \in {ReadEnd(c, Window, size)} :
          \E pos0 \in {Find(scaleAt, ScaleLen, c, hi)} :
          \E pos1 \in {NextScale(pos0, c, hi)} :
          \E pos2 \in {NextScale(pos1, c, hi)} :
          \E upos \in {Find(unitsAt, UnitsLen, Min2(c + pos2, hi), hi)
                        + pos2 + UnitsOff} :
            /\ fpos' = hi
            /\ scale_hits' = (IF pos0 > -1 THEN 1 ELSE 0)
                              + (IF NextScaleHit(pos0, c, hi) THEN 1 ELSE 0)
                              + (IF NextScaleHit(pos1, c, hi) THEN 1 ELSE 0)
            /\ IF pos2 + ScaleSkip > hi - c
               THEN \* unpack(endianness + 'f', ...) of fewer than 4 bytes
                    /\ pc' = "error" /\ err' = "struct.error"
                    /\ UNCHANGED scale_src
               ELSE /\ scale_src' = pos2
                    /\ IF upos + 8 > hi - c
                       THEN \* unpack('>Q', ...) of fewer than 8 bytes
                            pc' = "error" /\ err' = "struct.error"
                       ELSE IF lblLen > 0 /\ upos + 8 + 2 * (lblLen - 1) >= hi - c
                       THEN \* chunk[pos+8+i] past the window
                            pc' = "error" /\ err' = "IndexError"
                       ELSE pc' = "done" /\ err' = ""
  /\ UNCHANGED <<call, verbose, size, imageDataAt, scaleAt, unitsAt, lblLen,
                 spos, first_data_found, image_data_pos>>
  /\ UNCHANGED <<imageVars, endianVars, printed, batchVars, stretchVars>>

(***************************************************************************)
(* getDM4Image                                                              *)
(***************************************************************************)
\* keys of dm4_tagdtypes, mapped to the byte size of the type
dm4_tagdtypes ==
  [k \in {2, 3, 4, 5, 6, 7, 8, 9, 10, 11, 14, 15, 18, 20} |->
     CASE k \in {2, 3, 4} -> 2
       [] k \in {5, 6}    -> 4
       [] k \in {7, 11}   -> 8
       [] k \in {8, 9, 10} -> 1
       [] OTHER           -> 0]

NoImage == [at |-> -1, narray |-> -1]

\* offset of the narray field's end: header and the four 8-byte fields
HeaderEnd(p) == p + TagHeaderLen + 4 * FieldLen

\* line 163: cpos, the cursor after f.read(narray*4)
Cpos(p) == ReadEnd(HeaderEnd(p), 4 * blocks[p].narray, size)

\* line 165: dpos = chunk.find(b"Dimensions") on the 256 bytes read at cpos
Dpos(p) ==
  LET cpos == Cpos(p)
      hi   == ReadEnd(cpos, DimWindow, size)
      d    == blocks[p].dimRel
  IN  IF d >= 0 /\ cpos + d + DimensionsLen <= hi THEN d ELSE -1

\* lines 153-179: the exception raised while the block at p is read, "" if none
BlockErr(p) ==
  IF size < p + TlenEnd THEN "struct.error"                        \* tlen
  ELSE IF size < p + TagHeaderLen + FieldLen THEN "struct.error"   \* ninfo
  ELSE IF size <= p + TagHeaderLen + 2 * FieldLen THEN "IndexError" \* tdtype, dtype
  ELSE IF size < HeaderEnd(p) THEN "struct.error"                  \* narray
  ELSE IF blocks[p].narray < 0 THEN "ValueError"                   \* f.read(narray*4)
  ELSE IF size < Cpos(p) + Dpos(p) + Dim1End THEN "struct.error"   \* dim1
  ELSE IF size < Cpos(p) + Dpos(p) + DimChunk THEN "struct.error"  \* dim2
  ELSE IF blocks[p].huge THEN "MemoryError"                        \* image.resize
  ELSE ""

\* line 198: f.tell() after a block was read without error
BlockEnd(p) == Cpos(p) + Dpos(p) + DimChunk

\* lines 190-194: the verbose report of the first block looks both type codes up
ReportErr(p) ==
  IF verbose /\ (blocks[p].tdtype \notin DOMAIN dm4_tagdtypes
                 \/ blocks[p].dtype \notin DOMAIN dm4_tagdtypes)
  THEN "KeyError" ELSE ""

\* line 189: break, once the second block is bound to raw
BreakAfterSecondMut == FALSE
BreakAfterSecond == TRUE

\* lines 145-148: end of the window read at spos
ImageWindowEnd ==
  IF spos + Window < size THEN ReadEnd(fpos, Window, size)
                          ELSE ReadEnd(fpos, size - spos, size)

\* lines 144-198: one iteration of the scan for the image sentinel
ImageScanStep ==
  /\ call = "getDM4Image" /\ pc = "scan"
  /\ spos < size
  /\ windows' = windows + 1
  /\ LET hi  == ImageWindowEnd
         pos == Find(sentinelAt, SentinelLen, fpos, hi)
         p   == spos + pos
     IN  IF pos > -1
         THEN /\ matches' = Append(matches, p)
              /\ IF BlockErr(p) # ""
                 THEN /\ pc' = "error" /\ err' = BlockErr(p)
                      /\ fpos' = hi
                      /\ UNCHANGED <<spos, first, thumbnail, raw>>
                 ELSE IF ~first
                 THEN /\ thumbnail' = [at |-> p, narray |-> blocks[p].narray]
                      /\ first' = TRUE
                      /\ fpos' = BlockEnd(p)
                      /\ UNCHANGED raw
                      /\ IF ReportErr(p) # ""
                         THEN pc' = "error" /\ err' = ReportErr(p) /\ UNCHANGED spos
                         ELSE spos' = BlockEnd(p) /\ UNCHANGED <<pc, err>>
                 ELSE /\ raw' = [at |-> p, narray |-> blocks[p].narray]
                      /\ fpos' = BlockEnd(p)
                      /\ IF BreakAfterSecond
                         THEN pc' = "done" /\ UNCHANGED spos
                         ELSE spos' = BlockEnd(p) /\ UNCHANGED pc
                      /\ UNCHANGED <<first, thumbnail, err>>
         ELSE /\ fpos' = hi /\ spos' = hi
              /\ UNCHANGED <<pc, err, first, thumbnail, raw, matches>>
  /\ UNCHANGED <<call, verbose, size, sentinelAt, blocks, scaleVars>>
  /\ UNCHANGED <<endianVars, printed, batchVars, stretchVars>>

\* lines 144, 199: the loop condition fails; return raw, thumbnail
ImageScanExit ==
  /\ call = "getDM4Image" /\ pc = "scan"
  /\ ~(spos < size)
  /\ IF raw = NoImage \/ thumbnail = NoImage
     THEN pc' = "error" /\ err' = "UnboundLocalError"
     ELSE pc' = "done" /\ UNCHANGED err
  /\ UNCHANGED <<call, verbose, fileVars, scaleVars, imageVars>>
  /\ UNCHANGED <<endianVars, printed, batchVars, stretchVars>>

(***************************************************************************)
(* getDM4Endianness                                                         *)
(***************************************************************************)
\* line 64: f.read(16)
ReadHeader(st) == SubSeq(st, 1, Min2(HeaderLen, Len(st)))

\* lines 63-72
Endianness ==
  /\ call = "getDM4Endianness" /\ pc = "start"
  /\ LET data == ReadHeader(stream)
     IN  IF data = <<>>
         THEN \* b''[-1]
              /\ pc' = "error" /\ err' = "IndexError"
              /\ UNCHANGED <<ret, printed>>
         ELSE /\ IF data[Len(data)] = 0
                 THEN /\ ret' = ">"
                      /\ printed' = IF verbose THEN <<"Big-endian">> ELSE <<>>
                 ELSE /\ ret' = "<"
                      /\ printed' = IF verbose THEN <<"Little-endian">> ELSE <<>>
              /\ pc' = "done" /\ UNCHANGED err
  /\ UNCHANGED <<call, verbose, stream, parseVars, batchVars, stretchVars>>

(***************************************************************************)
(* convertDM4DirectoryToTiff: the batch loop                                *)
(*                                                                          *)
(* An entry of the walk is a file name that ends in 'dm4' or not, and the   *)
(* step of its conversion that raises, "" if none does.                     *)
(***************************************************************************)
\* the steps of the loop body that can raise, in the order of lines 233-258;
\* "resolution" is 1/scale for a scale of 0
Stages ==
  {"getDM4Endianness", "getDM4Scale", "getDM4Image", "stretch", "resolution",
   "imwrite"}

\* the exception a failing step raises
Raised(stage) ==
  CASE stage = "getDM4Endianness" -> "IndexError"
    [] stage = "getDM4Scale"      -> "OSError"
    [] stage = "getDM4Image"      -> "UnboundLocalError"
    [] stage = "stretch"          -> "TypeError"
    [] stage = "resolution"       -> "ZeroDivisionError"
    [] stage = "imwrite"          -> "UnicodeEncodeError"

\* lines 257-262: the only try statement of the loop body encloses tf.imwrite
\* and handles UnicodeEncodeError
Caught(stage) == stage = "imwrite"

\* whether the entry's failing step is executed at all (lines 238-253 run the
\* histogram stretch only if contrast is set)
Fails(e) == e.fails # "" /\ (e.fails = "stretch" => contrast)

RECURSIVE CountDM4(_)
CountDM4(fs) ==
  IF fs = <<>> THEN 0
  ELSE (IF fs[1].dm4 THEN 1 ELSE 0) + CountDM4(Tail(fs))

\* lines 212-225: count the dm4 files, reset the counter
BatchStart ==
  /\ call = "convertDM4DirectoryToTiff" /\ pc = "start"
  /\ num' = CountDM4(files)
  /\ i' = 0
  /\ cur' = 1
  /\ pc' = "walk"
  /\ UNCHANGED <<call, verbose, err, files, written, printed, contrast>>
  /\ UNCHANGED <<parseVars, endianVars, samples, minedge, maxedge, img>>

\* lines 227-264: the loop body for the next entry of the walk
BatchFile ==
  /\ call = "convertDM4DirectoryToTiff" /\ pc = "walk"
  /\ cur <= Len(files)
  /\ LET e == files[cur]
     IN  IF ~e.dm4
         THEN /\ cur' = cur + 1
              /\ UNCHANGED <<pc, err, i, written, printed>>
         ELSE IF Fails(e) /\ ~Caught(e.fails)
         THEN \* the exception leaves the loop and the function
              /\ pc' = "error" /\ err' = Raised(e.fails)
              /\ UNCHANGED <<cur, i, written, printed>>
         ELSE /\ written' = IF Fails(e) THEN written ELSE written \cup {cur}
              /\ i' = i + 1
              /\ printed' = Append(printed, <<i + 1, num>>)
              /\ cur' = cur + 1
              /\ UNCHANGED <<pc, err>>
  /\ UNCHANGED <<call, verbose, files, num, contrast>>
  /\ UNCHANGED <<parseVars, endianVars, samples, minedge, maxedge, img>>

\* line 265: the walk is exhausted
BatchDone ==
  /\ call = "convertDM4DirectoryToTiff" /\ pc = "walk"
  /\ cur > Len(files)
  /\ printed' = Append(printed, "Conversions done.")
  /\ pc' = "done"
  /\ UNCHANGED <<call, verbose, err, batchVars, contrast>>
  /\ UNCHANGED <<parseVars, endianVars, samples, minedge, maxedge, img>>

(***************************************************************************)
(* convertDM4DirectoryToTiff: normalization and contrast stretch            *)
(*                                                                          *)
(* The grid image['img'] is given by the number of pixels that hold each    *)
(* sample value.  Bin edges are written as multiples of 1/NBins.  The       *)
(* arithmetic is exact, except that a float result that is a whole number   *)
(* may fall just below it before the cast truncates.                        *)
(***************************************************************************)
RECURSIVE SumOver(_, _)
SumOver(f, S) ==
  IF S = {} THEN 0
  ELSE LET x == CHOOSE y \in S : TRUE IN f[x] + SumOver(f, S \ {x})

Present == {v \in DOMAIN samples : samples[v] > 0}
NPixels == SumOver(samples, DOMAIN samples)
SetMax(S) == CHOOSE x \in S : \A y \in S : x >= y
\* np.amin(image['img']) and np.amax(image['img'] - np.amin(image['img']))
Lo == SetMin(Present)
Span == SetMax(Present) - Lo

\* line 239: bin of the normalized sample (v - Lo) / Span; the last bin is
\* closed on the right
Bin(v) == IF v - Lo = Span THEN NBins - 1 ELSE ((v - Lo) * NBins) \div Span

\* pixels in bin j, and in bins 0..j; hist[j] is Hist(j) * NBins / NPixels
Hist(j) == SumOver(samples, {v \in Present : Bin(v) = j})
Cum(j) == SumOver(samples, {v \in Present : Bin(v) <= j})

\* line 245: tot > .001 after adding hist[j]/256
AboveLow(j) == Cum(j) * 1000 > NPixels
\* line 247: tot > 1-1.5e-4, that is Cum(j)/NPixels > 19997/20000
AboveHigh(j) == Cum(j) * 20000 > 19997 * NPixels

\* lines 243-248: the bins the loop visits, and the two edges it assigns
LoopBins == 0..(NBins - 2)

MinEdge ==
  LET J == {j \in LoopBins : Hist(j + 1) # Hist(j) /\ AboveLow(j)}
  IN  IF J = {} THEN None ELSE SetMin(J)

MaxEdge ==
  LET J == {j \in LoopBins : Hist(j + 1) # Hist(j) /\ AboveHigh(j)}
  IN  IF J = {} THEN None ELSE SetMin(J) + 1

\* lines 249-251: (norm_img-minedge)*255/(maxedge-minedge), clipped to
\* [0, 255] and cast to uint8, for the sample value v
Stretched(v, a, b) ==
  LET numer == ((v - Lo) * NBins - a * Span) * MaxByte
      denom == Span * (b - a)
  IN  IF numer < 0 THEN 0
      ELSE IF numer > MaxByte * denom THEN MaxByte
      ELSE numer \div denom

\* the sample values whose stretched value is a whole number strictly inside
\* (0, 255): the float quotient may fall just below it, and the cast truncates
StretchedWhole(a, b) ==
  {v \in Present :
     LET numer == ((v - Lo) * NBins - a * Span) * MaxByte
         denom == Span * (b - a)
     IN  numer > 0 /\ numer < MaxByte * denom /\ numer % denom = 0}

\* line 253: (norm_img*255).astype(np.uint8)
Scaled(v) == ((v - Lo) * MaxByte) \div Span

\* the same for line 253
ScaledWhole ==
  {v \in Present : v - Lo > 0 /\ v - Lo < Span /\ ((v - Lo) * MaxByte) % Span = 0}

\* the output grid: exact values, one less where the float result fell short
Rounded(exact, short) == [v \in Present |-> IF v \in short THEN exact[v] - 1 ELSE exact[v]]

\* lines 237-253
NormalizeStretch ==
  /\ call = "convertDM4DirectoryToTiff" /\ pc = "normalize"
  /\ IF NPixels = 0
     THEN \* np.amin of an empty array
          /\ pc' = "error" /\ err' = "ValueError"
          /\ UNCHANGED <<minedge, maxedge, img>>
     ELSE IF Span = 0
     THEN \* norm_img is 0/0 = nan in every pixel
          IF contrast
          THEN \* np.histogram: the range of the data is not finite
               /\ pc' = "error" /\ err' = "ValueError"
               /\ UNCHANGED <<minedge, maxedge, img>>
          ELSE \* the cast of nan to uint8 is unspecified
               /\ \E b \in 0..MaxByte : img' = [v \in Present |-> b]
               /\ pc' = "done"
               /\ UNCHANGED <<minedge, maxedge, err>>
     ELSE IF contrast
     THEN \E a \in {MinEdge} : \E b \in {MaxEdge} :
            /\ minedge' = a /\ maxedge' = b
            /\ IF a = None \/ b = None
               THEN \* norm_img - None
                    /\ pc' = "error" /\ err' = "TypeError"
                    /\ UNCHANGED img
               ELSE /\ \E short \in SUBSET StretchedWhole(a, b) :
                         img' = Rounded([v \in Present |-> Stretched(v, a, b)], short)
                    /\ pc' = "done" /\ UNCHANGED err
     ELSE /\ \E short \in SUBSET ScaledWhole :
               img' = Rounded([v \in Present |-> Scaled(v)], short)
          /\ pc' = "done"
          /\ UNCHANGED <<minedge, maxedge, err>>
  /\ UNCHANGED <<call, verbose, samples, contrast, printed, batchVars>>
  /\ UNCHANGED <<parseVars, endianVars>>

(***************************************************************************)
(* Streams explored                                                         *)
(***************************************************************************)
Sizes ==
  {0, 5} \cup {k * Window : k \in 1..MaxWindows}
         \cup {k * Window + 476 : k \in 1..MaxWindows}

\* offsets around b: a signature of length len ending at, straddling or
\* starting at b
Near(b, len) == {b - len, b - len + 1, b - 1, b, b + 1}

Boundaries == {k * Window : k \in 1..MaxWindows}
              \cup {k * (Window - Rewind) : k \in 1..MaxWindows}

ImageDataOffsets ==
  {0, 100} \cup UNION {Near(b, ImageDataLen) : b \in Boundaries}

\* sets of at most MaxOcc occurrences of a signature of length len that fit
\* in the stream and lie at least gap bytes apart
Placements(cands, len, gap, sz) ==
  {S \in SUBSET {q \in cands : q >= 0 /\ q + len <= sz} :
     /\ Cardinality(S) <= MaxOcc
     /\ \A a \in S : \A b \in S : a < b => a + gap <= b}

SentinelOffsets ==
  {0, 100, 300, 700} \cup UNION {Near(k * Window, SentinelLen) : k \in 1..MaxWindows}

\* type codes explored: array and float (keys of the table), 1 and 12 (not keys)
TagTypeCodes == {1, 20}
ElemTypeCodes == {6, 12}

\* a well-formed block: 4 floats, "Dimensions" 20 bytes past the payload
GoodBlock == [narray |-> 4, tdtype |-> 20, dtype |-> 6, dimRel |-> 20, huge |-> FALSE]

\* length of a well-formed block, from sentinel to the end of its dimensions
GoodBlockLen == TagHeaderLen + 4 * FieldLen + 4 * 4 + 20 + DimChunk

\* "Scale"/"Units"/label layouts of the window read at the image-data tag
ScaleRel == {12, 49, 86, 123, 990, 1010}
UnitsRel == {140, 1015}
LblLens == {0, 2, 500}

\* the state of the functions that are not called
NoEndianInput == stream = <<>> /\ ret = ""

NoBatchInput ==
  /\ files = <<>> /\ cur = 0 /\ num = 0 /\ i = 0 /\ written = {} /\ printed = <<>>

NoStretchInput ==
  /\ samples = <<>> /\ minedge = None /\ maxedge = None /\ img = <<>>

NoImageInput ==
  /\ sentinelAt = {} /\ blocks = <<>>
  /\ first = FALSE /\ thumbnail = NoImage /\ raw = NoImage
  /\ matches = <<>> /\ windows = 0

NoScaleInput ==
  /\ imageDataAt = {} /\ scaleAt = {} /\ unitsAt = {} /\ lblLen = 0
  /\ first_data_found = FALSE /\ image_data_pos = -1
  /\ scale_src = -1 /\ scale_hits = 0

NoParseInput ==
  /\ size = 0 /\ fpos = 0 /\ spos = 0
  /\ NoScaleInput /\ NoImageInput

InitScaleLocals ==
  /\ call = "getDM4Scale" /\ pc = "scan"
  /\ fpos = 0 /\ spos = 0
  /\ first_data_found = FALSE
  /\ image_data_pos = -1
  /\ scale_src = -1 /\ scale_hits = 0
  /\ err = ""

\* getDM4Scale called on streams that vary where "ImageData" occurs
InitScaleScan ==
  /\ InitScaleLocals
  /\ verbose = FALSE
  /\ size \in Sizes
  /\ imageDataAt \in Placements(ImageDataOffsets, ImageDataLen, ImageDataLen, size)
  /\ scaleAt = {} /\ unitsAt = {} /\ lblLen = 0
  /\ NoImageInput

\* getDM4Scale called on streams that vary the window at the image-data tag
InitScaleDecode ==
  /\ InitScaleLocals
  /\ verbose = FALSE
  /\ size \in {1100 + 200, 1100 + Window, 1100 + Window + 476}
  /\ imageDataAt = {0, 1100}
  /\ scaleAt \in SUBSET {1100 + r : r \in ScaleRel}
  /\ unitsAt \in SUBSET {1100 + r : r \in UnitsRel}
  /\ lblLen \in LblLens
  /\ NoImageInput

InitImageLocals ==
  /\ call = "getDM4Image" /\ pc = "scan"
  /\ fpos = 0 /\ spos = 0
  /\ first = FALSE
  /\ thumbnail = NoImage /\ raw = NoImage
  /\ matches = <<>> /\ windows = 0
  /\ err = ""

\* getDM4Image called on streams that vary where well-formed blocks lie
InitImageScan ==
  /\ InitImageLocals
  /\ verbose \in BOOLEAN
  /\ size \in Sizes
  /\ sentinelAt \in Placements(SentinelOffsets, SentinelLen, GoodBlockLen, size)
  /\ blocks = [p \in sentinelAt |-> GoodBlock]
  /\ NoScaleInput

\* getDM4Image called on streams that vary the header fields of the blocks
InitImageFields ==
  /\ InitImageLocals
  /\ verbose \in BOOLEAN
  /\ size = Window + 476
  /\ sentinelAt \in {S \in SUBSET {100, 400, 700} : Cardinality(S) <= MaxOcc}
  /\ \E na \in {-1, 0, 4, 1000} : \E dr \in {-1, 20} : \E hg \in BOOLEAN :
       blocks \in [sentinelAt -> {[narray |-> na, tdtype |-> t, dtype |-> d,
                                   dimRel |-> dr, huge |-> hg] :
                                  t \in TagTypeCodes, d \in ElemTypeCodes}]
  /\ NoScaleInput

Init ==
  /\ InitScaleScan \/ InitScaleDecode \/ InitImageScan \/ InitImageFields
  /\ NoEndianInput /\ NoBatchInput /\ NoStretchInput /\ contrast = FALSE

Next ==
  \/ ScaleScanStep \/ ScaleScanExit \/ ScaleDecode
  \/ ImageScanStep \/ ImageScanExit

Spec == Init /\ [][Next]_vars

FairSpec == Spec /\ WF_vars(Next)

(***************************************************************************)
(* Inputs explored for the other functions                                  *)
(***************************************************************************)
\* byte values of a header: the flag is 0 or not
ByteVals == {0, 1}

InitEndian ==
  /\ call = "getDM4Endianness" /\ pc = "start"
  /\ verbose \in BOOLEAN
  /\ stream \in UNION {[1..n -> ByteVals] : n \in 0..MaxLen}
  /\ ret = "" /\ err = ""
  /\ NoParseInput /\ NoBatchInput /\ NoStretchInput /\ contrast = FALSE

SpecEndian == InitEndian /\ [][Endianness]_vars

Entries ==
  {[dm4 |-> FALSE, fails |-> ""]}
    \cup {[dm4 |-> TRUE, fails |-> f] : f \in Stages \cup {""}}

InitBatch ==
  /\ call = "convertDM4DirectoryToTiff" /\ pc = "start"
  /\ verbose = FALSE
  /\ contrast \in BOOLEAN
  /\ files \in UNION {[1..n -> Entries] : n \in 0..MaxFiles}
  /\ cur = 0 /\ num = 0 /\ i = 0 /\ written = {} /\ printed = <<>>
  /\ err = ""
  /\ NoParseInput /\ NoEndianInput /\ NoStretchInput

NextBatch == BatchStart \/ BatchFile \/ BatchDone

SpecBatch == InitBatch /\ [][NextBatch]_vars

\* sample values: neighbours at both ends of a range of 255 or 256
SampleVals == {0, 1, 2, 254, 255, 256}
Counts == {0, 1, BigCount}

InitStretch ==
  /\ call = "convertDM4DirectoryToTiff" /\ pc = "normalize"
  /\ verbose = FALSE
  /\ contrast \in BOOLEAN
  /\ samples \in [SampleVals -> Counts]
  /\ minedge = None /\ maxedge = None /\ img = <<>>
  /\ err = ""
  /\ NoParseInput /\ NoEndianInput /\ NoBatchInput

SpecStretch == InitStretch /\ [][NormalizeStretch]_vars

(***************************************************************************)
(* Properties of getDM4Scale                                                *)
(***************************************************************************)
Terminal == pc \in {"done", "error"}

\* reference linear scan: offset of the second occurrence
SecondOcc(S) == SetMin(S \ {SetMin(S)})

\* C1: for every stream with at least two occurrences of "ImageData", the
\* image_data_pos the windowed scan computes is the offset of the second
\* occurrence found by a linear scan of the whole stream.
ClaimC1 ==
  (call = "getDM4Scale" /\ pc = "decode" /\ Cardinality(imageDataAt) >= 2)
    => image_data_pos = SecondOcc(imageDataAt)

\* number of "Scale" occurrences inside the window read at image_data_pos
ScalesInWindow ==
  Cardinality({q \in scaleAt :
                 /\ q >= image_data_pos
                 /\ q + ScaleLen <= ReadEnd(image_data_pos, Window, size)})

\* C6: when the window read at the image-data tag holds fewer than three
\* occurrences of "Scale", getDM4Scale ends with an error and decodes no
\* scale value.
ClaimC6 ==
  (call = "getDM4Scale" /\ Terminal /\ image_data_pos >= 0 /\ ScalesInWindow < 3)
    => (pc = "error" /\ scale_src = None)

(***************************************************************************)
(* Properties of getDM4Image                                                *)
(***************************************************************************)
\* the scan of getDM4Image run on the whole buffer as one window: the
\* offsets at which it matches the sentinel
RECURSIVE WholeScan(_, _)
WholeScan(from, found) ==
  LET pos == Find(sentinelAt, SentinelLen, from, size)
      p   == from + pos
  IN  IF from >= size \/ pos = -1 THEN found
      ELSE IF BlockErr(p) # "" THEN Append(found, p)
      ELSE IF found # <<>> THEN Append(found, p)
      ELSE IF ReportErr(p) # "" THEN <<p>>
      ELSE WholeScan(BlockEnd(p), <<p>>)

\* C2: the windowed sentinel scan matches at the same offsets as a scan of
\* the whole buffer at once, wherever the sentinels lie relative to the
\* window boundaries.
ClaimC2 ==
  (call = "getDM4Image" /\ Terminal) => matches = WholeScan(0, <<>>)

\* C7: a type code that is not a key of dm4_tagdtypes is never fatal, with
\* verbose on or off: no call of getDM4Image ends with the KeyError of the
\* table lookup.
ClaimC7 == (call = "getDM4Image" /\ pc = "error") => err # "KeyError"

\* C8: the first block met by the scan is returned as the thumbnail and the
\* second as the full image, and once the second block is decoded no
\* further window is read and neither result is replaced.
TheoremC8 ==
  /\ [](call = "getDM4Image" /\ pc = "done"
          => /\ Len(matches) = 2
             /\ thumbnail.at = matches[1]
             /\ raw.at = matches[2]
             /\ matches[1] < matches[2])
  /\ [][(call = "getDM4Image" /\ raw # NoImage)
          => (raw' = raw /\ thumbnail' = thumbnail /\ windows' = windows)]_vars

\* a call that returned although a further sentinel follows the second block
WitnessC8 ==
  /\ call = "getDM4Image" /\ pc = "done"
  /\ \E q \in sentinelAt : q >= fpos

(***************************************************************************)
(* Termination of the scans                                                 *)
(***************************************************************************)
\* C10: every call of getDM4Scale and getDM4Image on a finite stream
\* eventually returns or fails with an error.
TheoremC10 == <>Terminal

\* a scan that rewound through a stream of several windows and ended
WitnessC10 ==
  /\ call = "getDM4Scale" /\ Terminal
  /\ size > Window /\ spos = size /\ ~first_data_found

(***************************************************************************)
(* Properties of getDM4Endianness                                           *)
(***************************************************************************)
\* C4: getDM4Endianness fails for every stream shorter than 16 bytes, and
\* returns a byte order only for streams of at least 16 bytes, decided by
\* the byte at index 15 alone.
ClaimC4 ==
  (call = "getDM4Endianness" /\ Terminal)
    => /\ Len(stream) < HeaderLen => pc = "error"
       /\ pc = "done" => /\ Len(stream) >= HeaderLen
                         /\ ret = IF stream[HeaderLen] = 0 THEN ">" ELSE "<"

(***************************************************************************)
(* Properties of the batch loop                                             *)
(***************************************************************************)
\* C3: an exception raised while one file is parsed aborts only that file:
\* the batch goes on to every remaining entry of the walk and reaches its
\* end, whatever the sequence of good and failing files.
ClaimC3 ==
  (call = "convertDM4DirectoryToTiff" /\ pc \in {"walk", "done", "error"})
    => /\ pc # "error"
       /\ pc = "done" => cur = Len(files) + 1

(***************************************************************************)
(* Properties of normalization and contrast stretch                         *)
(***************************************************************************)
StretchEnded == call = "convertDM4DirectoryToTiff" /\ samples # <<>> /\ Terminal

\* C5: with contrast stretch enabled no output sample lies outside [0, 255],
\* and a constant-valued grid yields an all-zero output instead of an error.
ClaimC5 ==
  (StretchEnded /\ contrast /\ NPixels > 0)
    => /\ pc = "done" => \A v \in DOMAIN img : img[v] \in 0..MaxByte
       /\ Span = 0 => (pc = "done" /\ \A v \in DOMAIN img : img[v] = 0)

\* first bin at which the cumulated density exceeds 0.1%, resp. 99.985%
FirstAboveLow == SetMin({j \in 0..(NBins - 1) : AboveLow(j)})
FirstAboveHigh == SetMin({j \in 0..(NBins - 1) : AboveHigh(j)})

\* C9: for every non-constant grid minedge is the left edge of the first bin
\* at which the cumulated density exceeds 0.1% and maxedge the right edge of
\* the first bin at which it exceeds 99.985%, both assigned before the
\* clip-rescale uses them.
ClaimC9 ==
  (StretchEnded /\ contrast /\ NPixels > 0 /\ Span > 0)
    => /\ pc = "done"
       /\ minedge = FirstAboveLow
       /\ maxedge = FirstAboveHigh + 1

====
